---- MODULE Spec2Model ----
(***************************************************************************)
(* Model of finance/agents.py: compute_projection, the deterministic       *)
(* longevity projection (accumulation phase, retirement phase, periodic    *)
(* rebalancing, frozen sustainable withdrawal, exhaustion detection,       *)
(* monthly or yearly schedule, summary metrics).                           *)
(*                                                                         *)
(* Arithmetic.  The code computes in binary floating point.  The model     *)
(* computes in fixed point: money is an integer number of currency units,  *)
(* a monthly rate is an integer number of 1/RateDen, and every quotient is *)
(* rounded down.  A target weight v / total_init is kept as the exact      *)
(* fraction num/den.  Python's None is the empty tuple and a present value *)
(* v is the one-element tuple <<v>>.                                       *)
(***************************************************************************)
EXTENDS Integers, Sequences, FiniteSets, TLC

None == <<>>
Some(v) == <<v>>

\* dict.get(key, default) on an optional argument
Get(opt, default) == IF opt = None THEN default ELSE opt[1]

Max(a, b) == IF a >= b THEN a ELSE b
Min(a, b) == IF a <= b THEN a ELSE b

RECURSIVE GCD(_, _)
GCD(a, b) == IF b = 0 THEN a ELSE GCD(b, a % b)

RECURSIVE SumOver(_, _)
\* sum(d.values()) for the dict d restricted to the keys S
SumOver(d, S) ==
    IF S = {} THEN 0
    ELSE LET k == CHOOSE x \in S : TRUE
         IN d[k] + SumOver(d, S \ {k})

RECURSIVE GCDOver(_, _)
GCDOver(d, S) ==
    IF S = {} THEN 0
    ELSE LET k == CHOOSE x \in S : TRUE
         IN GCD(d[k], GCDOver(d, S \ {k}))

(***************************************************************************)
(* Program constants                                                       *)
(***************************************************************************)
MonthsPerYear == 12
DefaultStartYear == 2025
DefaultRebalanceEvery == 12
PctDen == 100
\* resolution of a monthly rate: one unit is 1/RateDen
RateDen == 10000

ASSET_KEY_TO_RETURN ==
    [equity |-> "equityReturnAnnualPct",
     bond   |-> "bondReturnAnnualPct",
     cash   |-> "cashReturnAnnualPct",
     alt    |-> "altReturnAnnualPct"]

(***************************************************************************)
(* _ann_to_monthly: (1 + r) ** (1/12) - 1.  The twelfth root is the        *)
(* largest y (in 1/RateDen) whose twelfth power, multiplied out in fixed   *)
(* point and rounded up at each product, does not exceed 1 + r.            *)
(***************************************************************************)
MulUp(a, b) == (a * b + RateDen - 1) \div RateDen

\* a power above PowCap is held at PowCap: it is above every 1 + r searched for
PowCap == 10 * RateDen

RECURSIVE PowUp(_, _)
PowUp(y, n) ==
    IF n = 0 THEN RateDen ELSE MulUp(Min(PowUp(y, n - 1), PowCap), y)

RECURSIVE RootSearch(_, _, _)
\* largest y in lo..hi with PowUp(y, 12) <= target, given PowUp(lo, 12) <= target
RootSearch(lo, hi, target) ==
    IF lo >= hi THEN lo
    ELSE LET mid == (lo + hi + 1) \div 2
         IN IF PowUp(mid, MonthsPerYear) <= target
            THEN RootSearch(mid, hi, target)
            ELSE RootSearch(lo, mid - 1, target)

\* annPct is the annual return in percent; the result is in 1/RateDen
ann_to_monthly(annPct) ==
    RootSearch(0, 2 * RateDen, (RateDen \div PctDen) * (PctDen + annPct)) - RateDen

(***************************************************************************)
(* Inputs                                                                  *)
(***************************************************************************)
MaxRetireYears == 1
MaxHorizonYears == 2

CurrentAges == {30}
TargetAges == {30 + d : d \in -1..MaxRetireYears}
HorizonOpts == {None} \cup {Some(h) : h \in 1..MaxHorizonYears}
LifeOpts == {None, Some(29), Some(31)}
StartYearOpts == {None, Some(2000)}
Granularities == {"monthly", "yearly"}
Contributions == {100}
Expenses == {0, 2000}
SwrPcts == {0, 48}
RebalanceOpts == {None, Some(0), Some(5)}
EquityReturns == {100, -50}

Breakdowns ==
    { << >>,
      << [assetClass |-> "equity", balance |-> 1000] >>,
      << [assetClass |-> "equity", balance |-> 600],
         [assetClass |-> "bond", balance |-> 400] >>,
      << [assetClass |-> "equity", balance |-> 0],
         [assetClass |-> "bond", balance |-> 0] >> }

AssumptionSets ==
    { [returns |-> [equityReturnAnnualPct |-> e, bondReturnAnnualPct |-> 0],
       swrPct |-> s,
       rebalanceFrequencyMonths |-> f] :
      e \in EquityReturns, s \in SwrPcts, f \in RebalanceOpts }

ArgRecords ==
    [currentAge : CurrentAges,
     targetRetirementAge : TargetAges,
     startCalendarYear : StartYearOpts,
     horizonYears : HorizonOpts,
     lifeExpectancyAge : LifeOpts,
     includeSchedule : BOOLEAN,
     scheduleGranularity : Granularities,
     stopWhenDepleted : BOOLEAN,
     monthlyContributions : Contributions,
     monthlyExpenses : Expenses,
     portfolioBreakdown : Breakdowns,
     assumptions : AssumptionSets]

\* scheduleGranularity and startCalendarYear are used only in the schedule
ArgSets ==
    {a \in ArgRecords :
        ~a.includeSchedule =>
            a.scheduleGranularity = "monthly" /\ a.startCalendarYear = None}

\* Scenario A of the specification
ScenarioA ==
    [currentAge |-> 30,
     targetRetirementAge |-> 65,
     startCalendarYear |-> None,
     horizonYears |-> None,
     lifeExpectancyAge |-> Some(95),
     includeSchedule |-> TRUE,
     scheduleGranularity |-> "monthly",
     stopWhenDepleted |-> TRUE,
     monthlyContributions |-> 1000,
     monthlyExpenses |-> 0,
     portfolioBreakdown |-> << [assetClass |-> "equity", balance |-> 10000] >>,
     assumptions |-> [returns |-> [equityReturnAnnualPct |-> 7],
                      swrPct |-> 4,
                      rebalanceFrequencyMonths |-> Some(12)]]

\* a dict without the key f
Without(r, f) == [k \in DOMAIN r \ {f} |-> r[k]]

BaseArgs ==
    [currentAge |-> 30,
     targetRetirementAge |-> 31,
     startCalendarYear |-> None,
     horizonYears |-> Some(2),
     lifeExpectancyAge |-> None,
     includeSchedule |-> TRUE,
     scheduleGranularity |-> "monthly",
     stopWhenDepleted |-> TRUE,
     monthlyContributions |-> 100,
     monthlyExpenses |-> 0,
     portfolioBreakdown |-> << [assetClass |-> "equity", balance |-> 600],
                               [assetClass |-> "bond", balance |-> 400] >>,
     assumptions |-> [returns |-> [equityReturnAnnualPct |-> 100,
                                   bondReturnAnnualPct |-> 0],
                      swrPct |-> 48,
                      rebalanceFrequencyMonths |-> None]]

\* the keys read with args[...] (lines 25, 26, 33, 36, 37)
RequiredKeys ==
    {"currentAge", "targetRetirementAge", "monthlyContributions",
     "portfolioBreakdown", "assumptions"}

\* argument dicts that lack a required key, at the top or in assumptions
MissingFieldArgs ==
    {Without(BaseArgs, f) : f \in RequiredKeys}
        \cup {[BaseArgs EXCEPT !.assumptions = Without(@, "swrPct")]}

\* a breakdown with an asset class that ASSET_KEY_TO_RETURN does not know
UnknownAssetArgs ==
    {[BaseArgs EXCEPT !.portfolioBreakdown =
          << [assetClass |-> "equity", balance |-> 600],
             [assetClass |-> "crypto", balance |-> 400] >>]}

\* assumptions without the annual return of an asset class of the breakdown
MissingReturnArgs ==
    {[BaseArgs EXCEPT !.assumptions.returns = [equityReturnAnnualPct |-> 100],
                      !.scheduleGranularity = g,
                      !.stopWhenDepleted = b] :
        g \in Granularities, b \in BOOLEAN}

\* retirement starts at once and the monthly expenses equal the whole
\* portfolio, whose buckets hold a half, a sixth and a third of it
ExactWithdrawalArgs ==
    {[BaseArgs EXCEPT !.targetRetirementAge = 30,
                      !.horizonYears = Some(1),
                      !.monthlyExpenses = 600,
                      !.portfolioBreakdown =
                          << [assetClass |-> "equity", balance |-> 300],
                             [assetClass |-> "bond", balance |-> 100],
                             [assetClass |-> "cash", balance |-> 200] >>,
                      !.assumptions.returns =
                          [equityReturnAnnualPct |-> 100,
                           bondReturnAnnualPct |-> 0,
                           cashReturnAnnualPct |-> 0],
                      !.stopWhenDepleted = b] : b \in BOOLEAN}

\* retirement starts at once and twelve monthly expenses use up the
\* portfolio, which earns nothing: the balance is 0 at the end of month 11
YearEndExhaustionArgs ==
    {[BaseArgs EXCEPT !.targetRetirementAge = 30,
                      !.monthlyExpenses = 100,
                      !.portfolioBreakdown =
                          << [assetClass |-> "bond", balance |-> 1200] >>,
                      !.scheduleGranularity = g,
                      !.stopWhenDepleted = b] :
        g \in Granularities, b \in BOOLEAN}

(***************************************************************************)
(* State                                                                   *)
(***************************************************************************)
VARIABLES
    args,                       \* the argument dict of this invocation
    pc,                         \* position in compute_projection
    asset_mret,                 \* assetClass -> monthly rate
    by_asset,                   \* assetClass -> balance
    target_weights,             \* assetClass -> [num, den]
    m,                          \* loop variable: the month being simulated
    age,
    sustainable,
    estimated_exhaustion_age,
    contrib,
    withdrawal,
    end_bal,
    results,
    output                      \* the returned dict, None until the return

vars == <<args, pc, asset_mret, by_asset, target_weights, m, age, sustainable,
          estimated_exhaustion_age, contrib, withdrawal, end_bal, results, output>>

\* The stored projection of a run (finance/models.py) and the requests that
\* execute it (finance/viewsets.py, finance/projection_engine.py)
VARIABLES
    db_run,                     \* the stored ProjectionRun row
    db_years,                   \* the stored ProjectionYear rows of the run
    user_data,                  \* the user's stored profile, assumptions, holdings
    exec_pc,                    \* per request: the position in execute
    frame,                      \* per request: the local objects of execute
    executions                  \* number of execute requests received

dbvars == <<db_run, db_years, user_data, exec_pc, frame, executions>>

\* the requests that may be in progress
Procs == {1, 2}

\* the locals of one execute request before it starts
EmptyFrame ==
    [projection_run |-> None,       \* the run object loaded by get_object
     profile |-> None,              \* engine.profile
     assumptions |-> None,          \* engine.assumptions
     current_portfolio |-> 0,       \* the value of the holdings
     projection_years |-> << >>,    \* the computed year_data dicts
     created |-> 0,                 \* position of the loop over projection_years
     result |-> None,               \* the metrics returned by the engine
     error |-> None,                \* the exception caught by execute
     exec_id |-> 0,                 \* which request created the rows
     response |-> None]

\* no stored projection: the state of the persistence layer while only
\* compute_projection runs
DBOff ==
    /\ db_run = None
    /\ db_years = {}
    /\ user_data = None
    /\ exec_pc = [p \in Procs |-> "idle"]
    /\ frame = [p \in Procs |-> EmptyFrame]
    /\ executions = 0

(***************************************************************************)
(* Lines 25-39: the arguments as the code reads them                       *)
(***************************************************************************)
current_age == args.currentAge
target_age == args.targetRetirementAge
start_year == Get(args.startCalendarYear, DefaultStartYear)
\* variant of horizon_years: the default horizon is at least one year
horizon_years_one == Get(args.horizonYears, Max(1, target_age - current_age))
horizon_years == Get(args.horizonYears, Max(0, target_age - current_age))
life_expectancy_age == Get(args.lifeExpectancyAge, current_age + horizon_years)
include_schedule == args.includeSchedule
granularity == args.scheduleGranularity
stop_when_depleted == args.stopWhenDepleted
monthly_contrib == args.monthlyContributions
monthly_expenses == args.monthlyExpenses
breakdown == args.portfolioBreakdown
assumptions == args.assumptions
swrPct == assumptions.swrPct
rebalance_every == Get(assumptions.rebalanceFrequencyMonths, DefaultRebalanceEvery)

\* variant of months_total: the life expectancy is not taken into account
months_total_horizon == horizon_years * MonthsPerYear

\* lines 60-61
months_total ==
    Min((life_expectancy_age - current_age) * MonthsPerYear,
        horizon_years * MonthsPerYear)

\* variant of retirement_m: the years to retirement are taken as months
retirement_m_years == Max(0, target_age - current_age)

\* line 61
retirement_m == Max(0, (target_age - current_age) * MonthsPerYear)

\* line 44: assumptions.get(ASSET_KEY_TO_RETURN[k], 0.0)
AnnualPct(k) ==
    IF ASSET_KEY_TO_RETURN[k] \in DOMAIN assumptions.returns
    THEN assumptions.returns[ASSET_KEY_TO_RETURN[k]]
    ELSE 0

\* lines 41-45
AssetMret == [k \in {breakdown[i].assetClass : i \in DOMAIN breakdown} |->
                 ann_to_monthly(AnnualPct(k))]

\* line 47: a later entry of the same asset class replaces an earlier one
ByAssetInit ==
    [k \in {breakdown[i].assetClass : i \in DOMAIN breakdown} |->
        LET last == CHOOSE i \in DOMAIN breakdown :
                        /\ breakdown[i].assetClass = k
                        /\ \A j \in DOMAIN breakdown :
                               breakdown[j].assetClass = k => j <= i
        IN breakdown[last].balance]

\* line 48: sum(by_asset.values()) or 1.0
TotalInit(ba) ==
    LET s == SumOver(ba, DOMAIN ba) IN IF s = 0 THEN 1 ELSE s

\* variant of TargetWeights: the divisor is pinned to 1 for every portfolio
TargetWeightsPinned(ba) ==
    [k \in DOMAIN ba |-> [num |-> ba[k], den |-> 1]]

\* line 49: v / total_init as the fraction num/den over a common denominator
TargetWeights(ba) ==
    LET ti == TotalInit(ba)
        g  == GCD(GCDOver(ba, DOMAIN ba), ti)
    IN [k \in DOMAIN ba |-> [num |-> ba[k] \div g, den |-> ti \div g]]

\* lines 69-70
total_balance == SumOver(by_asset, DOMAIN by_asset)

\* lines 25-44: a key lookup that raises KeyError
KeyErrorRaised ==
    IF ~(RequiredKeys \subseteq DOMAIN args) THEN TRUE
    ELSE IF "swrPct" \notin DOMAIN args.assumptions THEN TRUE
    ELSE \E i \in DOMAIN args.portfolioBreakdown :
            args.portfolioBreakdown[i].assetClass \notin DOMAIN ASSET_KEY_TO_RETURN

Init ==
    /\ args \in ArgSets \cup {ScenarioA} \cup MissingFieldArgs
                \cup UnknownAssetArgs \cup MissingReturnArgs
                \cup ExactWithdrawalArgs \cup YearEndExhaustionArgs
    /\ pc = "start"
    /\ asset_mret = << >>
    /\ by_asset = << >>
    /\ target_weights = << >>
    /\ m = 0
    /\ age = 0
    /\ sustainable = None
    /\ estimated_exhaustion_age = None
    /\ contrib = 0
    /\ withdrawal = 0
    /\ end_bal = 0
    /\ results = << >>
    /\ output = None
    /\ DBOff

\* lines 25-44: the set-up ends with an exception, nothing is returned
Raise ==
    /\ pc = "start"
    /\ UNCHANGED dbvars
    /\ KeyErrorRaised
    /\ pc' = "raised"
    /\ UNCHANGED <<args, asset_mret, by_asset, target_weights, m, age,
                   sustainable, estimated_exhaustion_age, contrib, withdrawal,
                   end_bal, results, output>>

\* lines 25-70: read the arguments and set up the run
Setup ==
    /\ pc = "start"
    /\ UNCHANGED dbvars
    /\ ~KeyErrorRaised
    /\ asset_mret' = AssetMret
    /\ by_asset' = ByAssetInit
    /\ target_weights' = TargetWeights(ByAssetInit)
    /\ age' = current_age
    /\ m' = 0
    /\ pc' = IF months_total > 0 THEN "cashflow" ELSE "metrics"
    /\ UNCHANGED <<args, sustainable, estimated_exhaustion_age, contrib,
                   withdrawal, end_bal, results, output>>

(***************************************************************************)
(* One iteration of the loop "for m in range(months_total)", lines 72-149  *)
(***************************************************************************)

\* variant of Sustainable: recomputed in every retirement month
SustainableRecomputed(sus, total) ==
    Some((total * swrPct) \div (PctDen * MonthsPerYear))

\* variant of Sustainable: not computed when monthlyExpenses is the withdrawal
SustainableUnlessExpenses(sus, total) ==
    IF sus = None /\ ~(monthly_expenses > 0)
    THEN Some((total * swrPct) \div (PctDen * MonthsPerYear))
    ELSE sus

\* lines 79-80: the sustainable withdrawal, computed when it is still None
Sustainable(sus, total) ==
    IF sus = None THEN Some((total * swrPct) \div (PctDen * MonthsPerYear))
    ELSE sus

\* line 86: w = by_asset[k] / total_before, in units of 1/ShareDen
ShareDen == 10000
Share(b, total_before) ==
    IF b = total_before THEN ShareDen ELSE (b * ShareDen) \div total_before

\* variant of Distribute: the flow is split by the target weights
DistributeByTarget(ba, total_before, c, w) ==
    IF total_before > 0
    THEN [k \in DOMAIN ba |->
             Max(0, ba[k] + (c * target_weights[k].num) \div target_weights[k].den
                          - (w * target_weights[k].num) \div target_weights[k].den)]
    ELSE ba

\* variant of Distribute: the buckets are not floored at 0
DistributeUnclamped(ba, total_before, c, w) ==
    IF total_before > 0
    THEN [k \in DOMAIN ba |->
             ba[k] + (c * Share(ba[k], total_before)) \div ShareDen
                   - (w * Share(ba[k], total_before)) \div ShareDen]
    ELSE ba

\* variant of Distribute: an empty portfolio takes the contribution
DistributeIntoEmpty(ba, total_before, c, w) ==
    IF total_before > 0
    THEN [k \in DOMAIN ba |->
             Max(0, ba[k] + (c * Share(ba[k], total_before)) \div ShareDen
                          - (w * Share(ba[k], total_before)) \div ShareDen)]
    ELSE [k \in DOMAIN ba |-> Max(0, ba[k] + c - w)]

\* lines 84-89: each bucket takes its current share of the contribution and
\* of the withdrawal and is then floored at 0
Distribute(ba, total_before, c, w) ==
    IF total_before > 0
    THEN [k \in DOMAIN ba |->
             Max(0, ba[k] + (c * Share(ba[k], total_before)) \div ShareDen
                          - (w * Share(ba[k], total_before)) \div ShareDen)]
    ELSE ba

\* lines 73-89: the month's contribution and withdrawal, then the cash flow
CashFlow ==
    /\ pc = "cashflow"
    /\ UNCHANGED dbvars
    /\ LET retired == ~(m < retirement_m)
           sus == IF retired THEN Sustainable(sustainable, total_balance)
                  ELSE sustainable
           c == IF retired THEN 0 ELSE monthly_contrib
           w == IF retired
                THEN (IF monthly_expenses > 0 THEN monthly_expenses ELSE sus[1])
                ELSE 0
       IN /\ sustainable' = sus
          /\ contrib' = c
          /\ withdrawal' = w
          /\ by_asset' = Distribute(by_asset, total_balance, c, w)
    /\ pc' = "growth"
    /\ UNCHANGED <<args, asset_mret, target_weights, m, age,
                   estimated_exhaustion_age, end_bal, results, output>>

\* line 92: by_asset[k] *= (1 + asset_mret.get(k, 0.0))
Grow(ba, mret) ==
    [k \in DOMAIN ba |->
        LET r == IF k \in DOMAIN mret THEN mret[k] ELSE 0
        IN ba[k] + (ba[k] * r) \div RateDen]

\* lines 91-94: growth, then the end balance of the month
Growth ==
    /\ pc = "growth"
    /\ UNCHANGED dbvars
    /\ by_asset' = Grow(by_asset, asset_mret)
    /\ end_bal' = SumOver(by_asset', DOMAIN by_asset')
    /\ pc' = "rebalance"
    /\ UNCHANGED <<args, asset_mret, target_weights, m, age, sustainable,
                   estimated_exhaustion_age, contrib, withdrawal, results, output>>

\* variant of RebalanceDue: a frequency of 0 is taken as every month
RebalanceDueMonthly(mm) ==
    (mm + 1) % Max(rebalance_every, 1) = 0

\* line 96: is a rebalance due at the end of month mm
RebalanceDue(mm) ==
    rebalance_every # 0 /\ (mm + 1) % rebalance_every = 0

\* variant of rebalance: the total is split evenly over the buckets
rebalance_even(ba, tw) ==
    LET total == SumOver(ba, DOMAIN ba)
    IN IF total <= 0
       THEN [k \in DOMAIN ba |-> 0]
       ELSE [k \in DOMAIN ba |-> total \div Cardinality(DOMAIN ba)]

\* lines 51-58: rebalance()
rebalance(ba, tw) ==
    LET total == SumOver(ba, DOMAIN ba)
    IN IF total <= 0
       THEN [k \in DOMAIN ba |-> 0]
       ELSE [k \in DOMAIN ba |->
                IF k \in DOMAIN tw THEN (total * tw[k].num) \div tw[k].den
                ELSE ba[k]]

\* lines 96-97
Rebalance ==
    /\ pc = "rebalance"
    /\ UNCHANGED dbvars
    /\ by_asset' = IF RebalanceDue(m) THEN rebalance(by_asset, target_weights)
                   ELSE by_asset
    /\ pc' = "exhaustion"
    /\ UNCHANGED <<args, asset_mret, target_weights, m, age, sustainable,
                   estimated_exhaustion_age, contrib, withdrawal, end_bal,
                   results, output>>

\* variant of Phase: retirement starts one month late
PhaseLate(mm) == IF mm > retirement_m THEN "retirement" ELSE "accumulation"

\* lines 111, 129: the phase of a monthly record
Phase(mm) == IF mm >= retirement_m THEN "retirement" ELSE "accumulation"

\* line 143: the phase of a yearly record
YearlyPhase(mm) ==
    IF (mm + 1) > retirement_m THEN "retirement" ELSE "accumulation"

\* variant of MonthlyRecord: the month of the year is counted from 0
MonthlyRecordFromZero(mm, a) ==
    LET ym == mm \div MonthsPerYear
    IN [yearIndex |-> ym,
        monthIndex |-> mm % MonthsPerYear,
        calendarYear |-> start_year + ym,
        calendarMonth |-> mm % MonthsPerYear,
        age |-> a,
        phase |-> Phase(mm),
        contributions |-> contrib,
        withdrawals |-> withdrawal,
        endBalance |-> end_bal]

\* lines 103-115 and 121-133: the record of month mm at age a
MonthlyRecord(mm, a) ==
    LET ym == mm \div MonthsPerYear
    IN [yearIndex |-> ym,
        monthIndex |-> (mm % MonthsPerYear) + 1,
        calendarYear |-> start_year + ym,
        calendarMonth |-> (mm % MonthsPerYear) + 1,
        age |-> a,
        phase |-> Phase(mm),
        contributions |-> contrib,
        withdrawals |-> withdrawal,
        endBalance |-> end_bal]

\* variant of YearlyRecord: the year index is not reduced by one
YearlyRecordNext(mm) ==
    LET yi == (mm + 1) \div MonthsPerYear
    IN [yearIndex |-> yi,
        calendarYear |-> start_year + yi,
        age |-> current_age + yi,
        phase |-> YearlyPhase(mm),
        endBalance |-> end_bal]

\* lines 137-145: the record of the year that ends with month mm
YearlyRecord(mm) ==
    LET yi == (mm + 1) \div MonthsPerYear - 1
    IN [yearIndex |-> yi,
        calendarYear |-> start_year + yi,
        age |-> current_age + yi,
        phase |-> YearlyPhase(mm),
        endBalance |-> end_bal]

\* variant of ExhaustionDetected: the age is recorded at every depleted month
ExhaustionDetectedAgain(eb, est) == eb <= 0

\* line 99
ExhaustionDetected(eb, est) == eb <= 0 /\ est = None

\* lines 102-116: what the schedule holds when the loop breaks on exhaustion
FinalRecords(res) ==
    IF include_schedule /\ granularity = "monthly"
    THEN Append(res, MonthlyRecord(m, age))
    ELSE res

\* lines 99-117
Exhaustion ==
    /\ pc = "exhaustion"
    /\ UNCHANGED dbvars
    /\ IF ExhaustionDetected(end_bal, estimated_exhaustion_age)
       THEN /\ estimated_exhaustion_age' = Some(age)
            /\ IF stop_when_depleted
               THEN /\ results' = FinalRecords(results)
                    /\ pc' = "metrics"
               ELSE /\ results' = results
                    /\ pc' = "record"
       ELSE /\ pc' = "record"
            /\ UNCHANGED <<estimated_exhaustion_age, results>>
    /\ UNCHANGED <<args, asset_mret, by_asset, target_weights, m, age,
                   sustainable, contrib, withdrawal, end_bal, output>>

\* lines 119-146: what the schedule holds after month mm was recorded
Recorded(res, mm) ==
    IF include_schedule
    THEN IF granularity = "monthly"
         THEN Append(res, MonthlyRecord(mm, current_age + mm \div MonthsPerYear))
         ELSE IF (mm + 1) % MonthsPerYear = 0
              THEN Append(res, YearlyRecord(mm))
              ELSE res
    ELSE res

\* lines 119-149, and line 72: the next month, or the end of the loop
Record ==
    /\ pc = "record"
    /\ UNCHANGED dbvars
    /\ results' = Recorded(results, m)
    /\ age' = IF (m + 1) % MonthsPerYear = 0 THEN age + 1 ELSE age
    /\ IF m + 1 < months_total
       THEN m' = m + 1 /\ pc' = "cashflow"
       ELSE m' = m /\ pc' = "metrics"
    /\ UNCHANGED <<args, asset_mret, by_asset, target_weights, sustainable,
                   estimated_exhaustion_age, contrib, withdrawal, end_bal, output>>

(***************************************************************************)
(* Lines 63-149 as a function of the arguments other than includeSchedule  *)
(* and scheduleGranularity: the part of the loop that does not touch       *)
(* results                                                                 *)
(***************************************************************************)
\* lines 63-67: the locals before the first month
LoopStart ==
    [by_asset |-> ByAssetInit,
     age |-> current_age,
     sustainable |-> None,
     estimated_exhaustion_age |-> None,
     months |-> 0,
     stopped |-> FALSE]

\* variant of Iteration: the loop breaks only where a final record is written
IterationBreaksWithRecord(s, mm) ==
    LET total == SumOver(s.by_asset, DOMAIN s.by_asset)
        retired == ~(mm < retirement_m)
        sus == IF retired THEN Sustainable(s.sustainable, total)
               ELSE s.sustainable
        c == IF retired THEN 0 ELSE monthly_contrib
        w == IF retired
             THEN (IF monthly_expenses > 0 THEN monthly_expenses ELSE sus[1])
             ELSE 0
        grown == Grow(Distribute(s.by_asset, total, c, w), asset_mret)
        eb == SumOver(grown, DOMAIN grown)
        hit == ExhaustionDetected(eb, s.estimated_exhaustion_age)
        stop == hit /\ stop_when_depleted
                    /\ include_schedule /\ granularity = "monthly"
    IN [by_asset |-> IF RebalanceDue(mm)
                     THEN rebalance(grown, target_weights)
                     ELSE grown,
        age |-> IF ~stop /\ (mm + 1) % MonthsPerYear = 0 THEN s.age + 1
                ELSE s.age,
        sustainable |-> sus,
        estimated_exhaustion_age |->
            IF hit THEN Some(s.age) ELSE s.estimated_exhaustion_age,
        months |-> mm + 1,
        stopped |-> stop]

\* lines 73-101, 117, 148-149: month mm applied to the locals s
Iteration(s, mm) ==
    LET total == SumOver(s.by_asset, DOMAIN s.by_asset)
        retired == ~(mm < retirement_m)
        sus == IF retired THEN Sustainable(s.sustainable, total)
               ELSE s.sustainable
        c == IF retired THEN 0 ELSE monthly_contrib
        w == IF retired
             THEN (IF monthly_expenses > 0 THEN monthly_expenses ELSE sus[1])
             ELSE 0
        grown == Grow(Distribute(s.by_asset, total, c, w), asset_mret)
        eb == SumOver(grown, DOMAIN grown)
        hit == ExhaustionDetected(eb, s.estimated_exhaustion_age)
        stop == hit /\ stop_when_depleted
    IN [by_asset |-> IF RebalanceDue(mm)
                     THEN rebalance(grown, target_weights)
                     ELSE grown,
        age |-> IF ~stop /\ (mm + 1) % MonthsPerYear = 0 THEN s.age + 1
                ELSE s.age,
        sustainable |-> sus,
        estimated_exhaustion_age |->
            IF hit THEN Some(s.age) ELSE s.estimated_exhaustion_age,
        months |-> mm + 1,
        stopped |-> stop]

\* line 72: the locals after the months lo .. hi - 1, starting with s, or
\* after the break (the range is halved to keep the evaluation shallow, and
\* t is bound by a set so that it is evaluated once)
RECURSIVE LoopOver(_, _, _)
LoopOver(s, lo, hi) ==
    IF lo >= hi THEN s
    ELSE IF hi = lo + 1 THEN (IF s.stopped THEN s ELSE Iteration(s, lo))
    ELSE CHOOSE r \in {LoopOver(t, (lo + hi) \div 2, hi) :
                          t \in {LoopOver(s, lo, (lo + hi) \div 2)}} : TRUE

\* line 72: the locals after "for m in range(n)"
LoopAfter(n) == LoopOver(LoopStart, 0, n)

(***************************************************************************)
(* Lines 151-168: the metrics and the return value                         *)
(***************************************************************************)
PortfolioAtRetirement(res) ==
    IF include_schedule
    THEN IF granularity = "monthly"
         THEN LET idx == Max(0, retirement_m - 1)
              IN IF idx < Len(res) THEN Some(res[idx + 1].endBalance) ELSE None
         ELSE LET yrs_to_ret == Max(0, target_age - current_age) - 1
              IN IF 0 <= yrs_to_ret /\ yrs_to_ret < Len(res)
                 THEN Some(res[yrs_to_ret + 1].endBalance)
                 ELSE None
    ELSE None

Metrics ==
    /\ pc = "metrics"
    /\ UNCHANGED dbvars
    /\ output' = Some([metrics |->
                          [portfolioAtRetirement |-> PortfolioAtRetirement(results),
                           sustainableMonthlySpend |-> sustainable,
                           estimatedExhaustionAge |-> estimated_exhaustion_age,
                           successProbabilityPct |-> None],
                       projectionResults |-> results])
    /\ pc' = "done"
    /\ UNCHANGED <<args, asset_mret, by_asset, target_weights, m, age,
                   sustainable, estimated_exhaustion_age, contrib, withdrawal,
                   end_bal, results>>

Next ==
    \/ Raise
    \/ Setup
    \/ CashFlow
    \/ Growth
    \/ Rebalance
    \/ Exhaustion
    \/ Record
    \/ Metrics

Spec == Init /\ [][Next]_vars

(***************************************************************************)
(* finance/viewsets.py ProjectionRunViewSet.execute and                    *)
(* finance/projection_engine.py ProjectionEngine: one stored run, its      *)
(* ProjectionYear rows, and the requests that execute it.  Money is in     *)
(* whole currency units and percentages are applied with floor division.   *)
(* The user has no income source, expense or contribution plan.            *)
(***************************************************************************)
MaxYears == 2
MaxExecutions == 2

\* year of ProjectionRun.as_of_date
AsOfYear == 2025

\* ProjectionRun.horizon_years and target_retirement_age as requests set them
HorizonYearsOpts == 0 .. MaxYears
TargetRetirementAges == {None, Some(66)}

\* Profile.birth_date (1 January of the year), the Assumptions row if the
\* user has one, and the value of the user's holdings
UserDataSets ==
    [birth_year : {None, Some(1960)},
     assumptions : {None, Some([equity_return_annual_pct |-> 7,
                                inflation_annual_pct |-> 2,
                                swr_pct |-> 4])},
     portfolio : {1000, 2000}]

\* the compute_projection variables while only the persistence layer runs
EngineOff ==
    /\ args = BaseArgs
    /\ pc = "off"
    /\ asset_mret = << >>
    /\ by_asset = << >>
    /\ target_weights = << >>
    /\ m = 0
    /\ age = 0
    /\ sustainable = None
    /\ estimated_exhaustion_age = None
    /\ contrib = 0
    /\ withdrawal = 0
    /\ end_bal = 0
    /\ results = << >>
    /\ output = None

InitDB ==
    /\ db_run \in {Some([horizon_years |-> h,
                         target_retirement_age |-> t,
                         status |-> "PENDING",
                         estimated_exhaustion_age |-> None,
                         portfolio_at_retirement |-> None,
                         sustainable_monthly_spend |-> None,
                         notes |-> ""]) :
                      h \in HorizonYearsOpts, t \in TargetRetirementAges}
    /\ db_years = {}
    /\ user_data \in UserDataSets
    /\ exec_pc = [p \in Procs |-> "idle"]
    /\ frame = [p \in Procs |-> EmptyFrame]
    /\ executions = 0
    /\ EngineOff

\* models.py 134-139: Profile.age_on on 1 January of the year
age_on(birth_year, year) ==
    IF birth_year = None THEN None ELSE Some(Max(year - birth_year[1], 0))

\* projection_engine.py 211-222: the comparison of a missing age with the
\* retirement age raises TypeError
WithdrawalsRaise(run, profile) ==
    run.target_retirement_age # None /\ profile.birth_year = None

\* projection_engine.py 211-222
calculate_withdrawals(run, profile, asm, year_offset, current_balance) ==
    LET age_then == age_on(profile.birth_year, AsOfYear + year_offset)
    IN IF run.target_retirement_age # None
          /\ age_then[1] >= run.target_retirement_age[1]
       THEN (current_balance * asm.swr_pct) \div PctDen
       ELSE 0

\* projection_engine.py 145-194: the year_data dicts from year_offset on
RECURSIVE run_yearly_projection(_, _, _, _, _)
run_yearly_projection(run, profile, asm, current_balance, year_offset) ==
    IF year_offset >= run.horizon_years THEN << >>
    ELSE LET year == AsOfYear + year_offset
             withdrawals ==
                 calculate_withdrawals(run, profile, asm, year_offset, current_balance)
             portfolio_return == asm.equity_return_annual_pct
             returns == (current_balance * portfolio_return) \div PctDen
             end_balance == current_balance + returns - withdrawals
             year_data ==
                 [year_index |-> year_offset,
                  calendar_year |-> year,
                  age |-> age_on(profile.birth_year, year),
                  start_balance |-> current_balance,
                  contributions |-> 0,
                  withdrawals |-> withdrawals,
                  nominal_return_rate_pct |-> portfolio_return,
                  inflation_rate_pct |-> asm.inflation_annual_pct,
                  end_balance |-> Max(end_balance, 0)]
         IN <<year_data>> \o
            run_yearly_projection(run, profile, asm, year_data.end_balance,
                                  year_offset + 1)

\* the first year_data of the list among the positions hits, None if none
FirstYear(years, hits) ==
    IF hits = {} THEN None
    ELSE Some(years[CHOOSE i \in hits : \A j \in hits : i <= j])

\* projection_engine.py 230-263: result.get(...) of the returned dict
calculate_metrics(run, asm, years) ==
    IF years = << >>
    THEN [exhaustion_age |-> None, retirement_portfolio |-> None,
          sustainable_spend |-> None]
    ELSE LET Retired(y) == /\ run.target_retirement_age # None
                           /\ y.age # None
                           /\ y.age[1] # 0
                           /\ y.age[1] >= run.target_retirement_age[1]
             Exhausted(y) == y.end_balance <= 0
             retirement_year ==
                 FirstYear(years, {i \in DOMAIN years : Retired(years[i])})
             exhausted_year ==
                 FirstYear(years, {i \in DOMAIN years : Exhausted(years[i])})
         IN [exhaustion_age |->
                 IF exhausted_year = None THEN None ELSE exhausted_year[1].age,
             retirement_portfolio |->
                 IF retirement_year = None THEN Some(0)
                 ELSE Some(retirement_year[1].end_balance),
             sustainable_spend |->
                 IF retirement_year = None THEN Some(0)
                 ELSE Some((retirement_year[1].end_balance * asm.swr_pct)
                               \div (PctDen * MonthsPerYear))]

\* the ProjectionYear row that create(run=..., **year_data) stores for request p
YearRow(p, year_data) == [created_by |-> frame[p].exec_id, data |-> year_data]

\* the queryset ProjectionYear.objects.filter(run=self.projection_run)
RunYearsFirst(years) == {y \in years : y.data.year_index = 0}
RunYears(years) == years

\* no other request is being handled
Sequential(p) == \A q \in Procs \ {p} : exec_pc[q] = "idle"
AllIdle == \A q \in Procs : exec_pc[q] = "idle"

\* viewsets.py 209: execute loads the run; the requests are handled one
\* after the other
GetObject(p) ==
    /\ exec_pc[p] = "idle"
    /\ Sequential(p)
    /\ executions < MaxExecutions
    /\ executions' = executions + 1
    /\ frame' = [frame EXCEPT ![p] =
                    [EmptyFrame EXCEPT !.projection_run = db_run,
                                       !.exec_id = executions + 1]]
    /\ exec_pc' = [exec_pc EXCEPT ![p] = "init"]
    /\ UNCHANGED <<db_run, db_years, user_data>>
    /\ UNCHANGED vars

\* projection_engine.py 23-35: ProjectionEngine(projection_run); without an
\* Assumptions row Assumptions.objects.get raises DoesNotExist
EngineInit(p) ==
    /\ exec_pc[p] = "init"
    /\ IF user_data.assumptions = None
       THEN /\ frame' = [frame EXCEPT ![p].error = Some("DoesNotExist")]
            /\ exec_pc' = [exec_pc EXCEPT ![p] = "failed"]
       ELSE /\ frame' = [frame EXCEPT
                            ![p].profile = Some([birth_year |-> user_data.birth_year]),
                            ![p].assumptions = user_data.assumptions]
            /\ exec_pc' = [exec_pc EXCEPT ![p] = "delete"]
    /\ UNCHANGED <<db_run, db_years, user_data, executions>>
    /\ UNCHANGED vars

\* projection_engine.py 44: the stored years of the run are deleted
DeleteYears(p) ==
    /\ exec_pc[p] = "delete"
    /\ db_years' = db_years \ RunYears(db_years)
    /\ exec_pc' = [exec_pc EXCEPT ![p] = "compute"]
    /\ UNCHANGED <<db_run, user_data, frame, executions>>
    /\ UNCHANGED vars

\* projection_engine.py 47-59: the projection and its metrics
Compute(p) ==
    /\ exec_pc[p] = "compute"
    /\ LET run == frame[p].projection_run[1]
           profile == frame[p].profile[1]
           asm == frame[p].assumptions[1]
       IN IF run.horizon_years > 0 /\ WithdrawalsRaise(run, profile)
          THEN /\ frame' = [frame EXCEPT
                               ![p].current_portfolio = user_data.portfolio,
                               ![p].error = Some("TypeError")]
               /\ exec_pc' = [exec_pc EXCEPT ![p] = "failed"]
          ELSE LET years == run_yearly_projection(run, profile, asm,
                                                  user_data.portfolio, 0)
               IN /\ frame' = [frame EXCEPT
                                  ![p].current_portfolio = user_data.portfolio,
                                  ![p].projection_years = years,
                                  ![p].result = Some(calculate_metrics(run, asm, years))]
                  /\ exec_pc' = [exec_pc EXCEPT ![p] = "create"]
    /\ UNCHANGED <<db_run, db_years, user_data, executions>>
    /\ UNCHANGED vars

\* models.py 343-345: unique_together (run, year_index)
Conflicts(years, year_data) ==
    \E y \in years : y.data.year_index = year_data.year_index

\* projection_engine.py 62-66: one ProjectionYear.objects.create succeeds
CreateYear(p) ==
    /\ exec_pc[p] = "create"
    /\ frame[p].created < Len(frame[p].projection_years)
    /\ LET year_data == frame[p].projection_years[frame[p].created + 1]
       IN /\ ~Conflicts(db_years, year_data)
          /\ db_years' = db_years \cup {YearRow(p, year_data)}
    /\ frame' = [frame EXCEPT ![p].created = @ + 1]
    /\ UNCHANGED <<db_run, user_data, exec_pc, executions>>
    /\ UNCHANGED vars

\* projection_engine.py 62-72: one create raises, IntegrityError when a row
\* with the year_index is stored, else a failure of the database
CreateFails(p) ==
    /\ exec_pc[p] = "create"
    /\ frame[p].created < Len(frame[p].projection_years)
    /\ LET year_data == frame[p].projection_years[frame[p].created + 1]
       IN frame' = [frame EXCEPT ![p].error =
                       IF Conflicts(db_years, year_data)
                       THEN Some("IntegrityError") ELSE Some("DatabaseError")]
    /\ exec_pc' = [exec_pc EXCEPT ![p] = "failed"]
    /\ UNCHANGED <<db_run, db_years, user_data, executions>>
    /\ UNCHANGED vars

\* viewsets.py 213-217: the loaded run object is saved as COMPLETED
SaveCompleted(p) ==
    /\ exec_pc[p] = "create"
    /\ frame[p].created = Len(frame[p].projection_years)
    /\ LET result == frame[p].result[1]
       IN db_run' = Some([frame[p].projection_run[1] EXCEPT
                            !.status = "COMPLETED",
                            !.estimated_exhaustion_age = result.exhaustion_age,
                            !.portfolio_at_retirement = result.retirement_portfolio,
                            !.sustainable_monthly_spend = result.sustainable_spend])
    /\ exec_pc' = [exec_pc EXCEPT ![p] = "respond"]
    /\ UNCHANGED <<db_years, user_data, frame, executions>>
    /\ UNCHANGED vars

\* viewsets.py 225-230: the loaded run object is saved as FAILED
SaveFailed(p) ==
    /\ exec_pc[p] = "failed"
    /\ db_run' = Some([frame[p].projection_run[1] EXCEPT !.status = "FAILED"])
    /\ exec_pc' = [exec_pc EXCEPT ![p] = "respond"]
    /\ UNCHANGED <<db_years, user_data, frame, executions>>
    /\ UNCHANGED vars

\* viewsets.py 219-223 and 232-235: the response of execute
Respond(p) ==
    /\ exec_pc[p] = "respond"
    /\ frame' = [frame EXCEPT ![p] =
                    [EmptyFrame EXCEPT !.response =
                        IF frame[p].error = None
                        THEN Some([status |-> "success", message |-> "completed"])
                        ELSE Some([status |-> "error", message |-> frame[p].error[1]])]]
    /\ exec_pc' = [exec_pc EXCEPT ![p] = "idle"]
    /\ UNCHANGED <<db_run, db_years, user_data, executions>>
    /\ UNCHANGED vars

\* viewsets.py 29-38, 130-160, 176-188: the user edits the profile, the
\* holdings or the assumptions
ChangeUserData ==
    /\ AllIdle
    /\ user_data' \in UserDataSets \ {user_data}
    /\ UNCHANGED <<db_run, db_years, exec_pc, frame, executions>>
    /\ UNCHANGED vars

\* viewsets.py 191-201: the user updates horizon_years of the run
UpdateRun ==
    /\ AllIdle
    /\ \E h \in HorizonYearsOpts \ {db_run[1].horizon_years} :
          db_run' = Some([db_run[1] EXCEPT !.horizon_years = h])
    /\ UNCHANGED <<db_years, user_data, exec_pc, frame, executions>>
    /\ UNCHANGED vars

NextDB ==
    \/ \E p \in Procs : GetObject(p)
    \/ \E p \in Procs : EngineInit(p)
    \/ \E p \in Procs : DeleteYears(p)
    \/ \E p \in Procs : Compute(p)
    \/ \E p \in Procs : CreateYear(p)
    \/ \E p \in Procs : CreateFails(p)
    \/ \E p \in Procs : SaveCompleted(p)
    \/ \E p \in Procs : SaveFailed(p)
    \/ \E p \in Procs : Respond(p)
    \/ ChangeUserData
    \/ UpdateRun

SpecDB == InitDB /\ [][NextDB]_dbvars

(***************************************************************************)
(* Two execute requests on the same run that are handled at the same time  *)
(* (several workers): every ORM call is a step of its own, no transaction  *)
(* spans them.  The user changes nothing meanwhile.                        *)
(***************************************************************************)
\* viewsets.py 209: execute loads the run, whatever the other request does
GetObjectConcurrent(p) ==
    /\ exec_pc[p] = "idle"
    /\ executions < MaxExecutions
    /\ executions' = executions + 1
    /\ frame' = [frame EXCEPT ![p] =
                    [EmptyFrame EXCEPT !.projection_run = db_run,
                                       !.exec_id = executions + 1]]
    /\ exec_pc' = [exec_pc EXCEPT ![p] = "init"]
    /\ UNCHANGED <<db_run, db_years, user_data>>
    /\ UNCHANGED vars

NextConcurrent ==
    \/ \E p \in Procs : GetObjectConcurrent(p)
    \/ \E p \in Procs : EngineInit(p)
    \/ \E p \in Procs : DeleteYears(p)
    \/ \E p \in Procs : Compute(p)
    \/ \E p \in Procs : CreateYear(p)
    \/ \E p \in Procs : CreateFails(p)
    \/ \E p \in Procs : SaveCompleted(p)
    \/ \E p \in Procs : SaveFailed(p)
    \/ \E p \in Procs : Respond(p)

SpecConcurrent == InitDB /\ [][NextConcurrent]_dbvars

(***************************************************************************)
(* Properties                                                              *)
(***************************************************************************)
InLoop == pc \in {"cashflow", "growth", "rebalance", "exhaustion", "record"}

\* the absolute month a schedule record describes
RecMonth(r) ==
    IF granularity = "monthly"
    THEN r.yearIndex * MonthsPerYear + r.monthIndex - 1
    ELSE (r.yearIndex + 1) * MonthsPerYear - 1

\* v is q rounded down, for the quotient q = n / d with d > 0
IsFloorOf(v, n, d) == v * d <= n /\ n < (v + 1) * d

\* C1: the sustainable monthly withdrawal is assigned at most once per run:
\* in the cash-flow step of month retirement_m, the first simulated month
\* with m >= retirement_m, to (total balance at the start of that month *
\* swrPct / 100) / 12; every retirement month has it set, and once set it
\* keeps that value in every later step, whatever the balance becomes.
C1_SustainableSetOnce ==
    [][ /\ (sustainable = None /\ sustainable' # None) =>
              /\ pc = "cashflow"
              /\ m = retirement_m
              /\ IsFloorOf(sustainable'[1], total_balance * swrPct, 1200)
        /\ (sustainable # None) => (sustainable' = sustainable)
        /\ (pc = "cashflow" /\ m >= retirement_m) => (sustainable' # None)
      ]_vars

\* C1 witness: a month after the one that set the withdrawal, in which the
\* balance has changed so that a recomputation would give another value
C1_Witness ==
    /\ pc = "exhaustion"
    /\ sustainable # None
    /\ m > retirement_m
    /\ ~IsFloorOf(sustainable[1], total_balance * swrPct, 1200)

\* the first month of the period a schedule record describes
RecStart(r) ==
    IF granularity = "monthly" THEN RecMonth(r)
    ELSE RecMonth(r) - (MonthsPerYear - 1)

\* C2: every schedule record (monthly, final exhaustion record, yearly) for
\* absolute month mm has phase accumulation iff mm < retirement_m and
\* retirement iff mm >= retirement_m; no accumulation record follows a
\* retirement record; the first retirement record begins at month
\* retirement_m and the record before it, the last accumulation record, is
\* the one of month retirement_m - 1.
C2_PhaseOneWay ==
    /\ \A i \in DOMAIN results :
          /\ (results[i].phase = "accumulation") <=> (RecMonth(results[i]) < retirement_m)
          /\ (results[i].phase = "retirement") <=> (RecMonth(results[i]) >= retirement_m)
    /\ \A i \in DOMAIN results :
          (i > 1 /\ results[i - 1].phase = "retirement") =>
              results[i].phase = "retirement"
    /\ \A i \in DOMAIN results :
          (/\ results[i].phase = "retirement"
           /\ (i = 1 \/ results[i - 1].phase = "accumulation")) =>
              /\ RecStart(results[i]) = retirement_m
              /\ i > 1 => RecMonth(results[i - 1]) = retirement_m - 1

\* C2 witness: a returned schedule whose last record is the final record of
\* a run stopped on exhaustion and that crosses the phase boundary
C2_Witness ==
    /\ pc = "done"
    /\ stop_when_depleted
    /\ estimated_exhaustion_age # None
    /\ \E i \in DOMAIN results :
          /\ i + 1 \in DOMAIN results
          /\ results[i].phase = "accumulation"
          /\ results[i + 1].phase = "retirement"

\* C3 (as claimed): for Scenario A the returned schedule has exactly 420
\* accumulation records followed by retirement records, and
\* sustainableMonthlySpend is not null and is the withdrawal of every
\* retirement record.
C3_ScenarioA ==
    (args = ScenarioA /\ pc = "done") =>
        LET out == output[1]
            res == out.projectionResults
        IN /\ Len(res) > 420
           /\ \A i \in 1..420 : res[i].phase = "accumulation"
           /\ \A i \in 421..Len(res) : res[i].phase = "retirement"
           /\ out.metrics.sustainableMonthlySpend # None
           /\ \A i \in 421..Len(res) :
                 Some(res[i].withdrawals) = out.metrics.sustainableMonthlySpend

\* C4: estimatedExhaustionAge is null until the exhaustion check of the
\* first month whose end balance is <= 0, is set there to
\* currentAge + floor(m / 12), and never changes afterwards.
C4_ExhaustionStable ==
    [][ /\ (estimated_exhaustion_age # None) =>
              (estimated_exhaustion_age' = estimated_exhaustion_age)
        /\ (estimated_exhaustion_age = None /\ estimated_exhaustion_age' # None) =>
              /\ pc = "exhaustion"
              /\ end_bal <= 0
              /\ estimated_exhaustion_age' = Some(current_age + m \div 12)
        /\ (pc = "exhaustion" /\ end_bal <= 0) => (estimated_exhaustion_age' # None)
      ]_vars

\* C4 witness: the run continued after exhaustion (stopWhenDepleted false)
\* and a later depleted month is checked at an age other than the recorded one
C4_Witness ==
    /\ pc = "exhaustion"
    /\ ~stop_when_depleted
    /\ end_bal <= 0
    /\ estimated_exhaustion_age # None
    /\ estimated_exhaustion_age # Some(age)

\* C5 (as claimed): when stopWhenDepleted is set and exhaustion is detected
\* in month m, exactly one final record for month m is appended whenever
\* includeSchedule is true, for either granularity, and the loop ends.
C5_FinalRecord ==
    [][ (/\ pc = "exhaustion"
         /\ end_bal <= 0
         /\ estimated_exhaustion_age = None
         /\ stop_when_depleted) =>
            /\ pc' = "metrics"
            /\ include_schedule =>
                  /\ Len(results') = Len(results) + 1
                  /\ results'[Len(results')].endBalance = end_bal
                  /\ \A i \in DOMAIN results : results'[i] = results[i]
            /\ ~include_schedule => results' = results
      ]_vars

\* C6: every simulated month m satisfies 0 <= m < monthsTotal, with
\* monthsTotal = min((lifeExpectancyAge - currentAge) * 12, horizonYears * 12)
\* and horizonYears defaulting to max(0, targetRetirementAge - currentAge),
\* and no record describes a later month; when no end balance reached <= 0
\* in a run with stopWhenDepleted, estimatedExhaustionAge is returned null
\* and the monthly schedule has one record for each month 0..monthsTotal-1.
C6_WithinMonthsTotal ==
    LET hy == IF args.horizonYears = None
              THEN Max(0, args.targetRetirementAge - args.currentAge)
              ELSE args.horizonYears[1]
        life == IF args.lifeExpectancyAge = None
                THEN args.currentAge + hy
                ELSE args.lifeExpectancyAge[1]
        mt == Min((life - args.currentAge) * 12, hy * 12)
    IN /\ InLoop => (0 <= m /\ m < mt)
       /\ \A i \in DOMAIN results : RecMonth(results[i]) < mt
       /\ (/\ pc = "done"
           /\ stop_when_depleted
           /\ include_schedule
           /\ granularity = "monthly"
           /\ \A i \in DOMAIN results : results[i].endBalance > 0) =>
              /\ output[1].metrics.estimatedExhaustionAge = None
              /\ Len(output[1].projectionResults) = Cardinality(0 .. mt - 1)
              /\ \A i \in DOMAIN results : RecMonth(results[i]) = i - 1

\* C6 witness: a returned full-horizon monthly schedule, never depleted,
\* cut by the life expectancy before the horizon
C6_Witness ==
    /\ pc = "done"
    /\ stop_when_depleted
    /\ estimated_exhaustion_age = None
    /\ granularity = "monthly"
    /\ Len(results) = 12
    /\ horizon_years * 12 > Len(results)
    /\ (life_expectancy_age - current_age) * 12 = Len(results)

\* C7: after a rebalance each bucket holds its target weight's share of the
\* total just before the rebalance (rounded down to the money unit), the
\* total after it is that total up to one unit of rounding per bucket, so
\* end_bal, taken before the rebalance, is still the total; if the total
\* was <= 0 every bucket is zero afterwards.
C7_RebalanceToTarget ==
    [][ (pc = "rebalance" /\ RebalanceDue(m)) =>
           LET total == total_balance
               after == SumOver(by_asset', DOMAIN by_asset')
           IN /\ DOMAIN by_asset' = DOMAIN by_asset
              /\ end_bal = total
              /\ IF total <= 0
                 THEN \A k \in DOMAIN by_asset : by_asset'[k] = 0
                 ELSE /\ \A k \in DOMAIN by_asset :
                            IsFloorOf(by_asset'[k], total * target_weights[k].num,
                                      target_weights[k].den)
                      /\ after <= end_bal
                      /\ end_bal - after < Cardinality(DOMAIN by_asset)
      ]_vars

\* C7 witness: the state right after a rebalance of two buckets with
\* different returns, several months into the run
C7_Witness ==
    /\ pc = "exhaustion"
    /\ RebalanceDue(m)
    /\ m >= 4
    /\ DOMAIN by_asset = {"equity", "bond"}
    /\ by_asset["equity"] > 0
    /\ by_asset["bond"] > 0
    /\ asset_mret["equity"] # asset_mret["bond"]

\* the sum of the numerators of the target weights
WeightNumSum ==
    SumOver([k \in DOMAIN target_weights |-> target_weights[k].num],
            DOMAIN target_weights)

\* the target weights are the initial balances divided by total_init
WeightsFromInitialBalances ==
    LET init == ByAssetInit
        total == SumOver(init, DOMAIN init)
    IN /\ DOMAIN target_weights = DOMAIN init
       /\ \A k \in DOMAIN init :
             target_weights[k].num * (IF total = 0 THEN 1 ELSE total)
                 = init[k] * target_weights[k].den

\* C8 (as claimed): in every state after the set-up the target weights of a
\* non-empty portfolio are the ones computed from the initial balances and
\* they sum to 1, also when the balances total 0.
C8_WeightsSumToOne ==
    (pc \notin {"start", "raised"} /\ DOMAIN target_weights # {}) =>
        /\ WeightsFromInitialBalances
        /\ \A k \in DOMAIN target_weights : WeightNumSum = target_weights[k].den

\* C8 (amended): in every state after the set-up the target weights are the
\* ones computed from the initial balances; they sum to 1 when the initial
\* balances total more than 0 and are all 0 when the initial balances total 0.
C8_WeightsFrozen ==
    pc \notin {"start", "raised"} =>
        LET init == ByAssetInit
            total == SumOver(init, DOMAIN init)
        IN /\ WeightsFromInitialBalances
           /\ total > 0 =>
                 \A k \in DOMAIN target_weights :
                     WeightNumSum = target_weights[k].den
           /\ total = 0 =>
                 \A k \in DOMAIN target_weights : target_weights[k].num = 0

\* C8 witness: the end of a run of two buckets whose shares have drifted
\* away from the target weights
C8_Witness ==
    /\ pc = "done"
    /\ m > 0
    /\ DOMAIN target_weights = {"equity", "bond"}
    /\ total_balance > 0
    /\ by_asset["equity"] * target_weights["equity"].den
           > total_balance * target_weights["equity"].num + target_weights["equity"].den

\* C9 (as claimed): when the portfolio totals 0 at the start and
\* monthlyContributions is non-zero, the contribution of an accumulation
\* month lands in the buckets: after the cash-flow step the total balance
\* is at least the contribution.
C9_ScenarioB ==
    (/\ pc = "growth"
     /\ m < retirement_m
     /\ DOMAIN ByAssetInit # {}
     /\ SumOver(ByAssetInit, DOMAIN ByAssetInit) = 0
     /\ monthly_contrib # 0) =>
        total_balance >= monthly_contrib

\* C10 (as claimed): portfolioAtRetirement is the endBalance of the record
\* at index retirementMonthIndex - 1 (monthly) or
\* targetRetirementAge - currentAge - 1 (yearly) when that record exists,
\* and null otherwise.
C10_PortfolioAtRetirement ==
    pc = "done" =>
        LET res == output[1].projectionResults
            idx == IF granularity = "monthly"
                   THEN retirement_m - 1
                   ELSE target_age - current_age - 1
        IN output[1].metrics.portfolioAtRetirement =
              IF include_schedule /\ 0 <= idx /\ idx < Len(res)
              THEN Some(res[idx + 1].endBalance)
              ELSE None

\* C11: the returned sustainableMonthlySpend is null iff no month m with
\* m >= retirement_m was simulated; otherwise it is the frozen sustainable
\* withdrawal (for retirement_m = 0: the initial total * swrPct / 100 / 12),
\* also when monthlyExpenses > 0 is the withdrawal actually applied; with
\* monthlyExpenses = 0 it is the withdrawal of every retirement record.
C11_SustainableSpend ==
    pc = "done" =>
        LET spend == output[1].metrics.sustainableMonthlySpend
            res == output[1].projectionResults
            reached == months_total > 0 /\ m >= retirement_m
            init == SumOver(ByAssetInit, DOMAIN ByAssetInit)
        IN /\ (spend = None) <=> ~reached
           /\ reached =>
                 /\ spend = sustainable
                 /\ retirement_m = 0 =>
                       IsFloorOf(spend[1], init * swrPct, 1200)
                 /\ \A i \in DOMAIN res :
                       (granularity = "monthly" /\ res[i].phase = "retirement") =>
                           res[i].withdrawals =
                               IF monthly_expenses > 0 THEN monthly_expenses
                               ELSE spend[1]

\* C11 witness: a returned run that reached retirement with monthlyExpenses
\* as the withdrawal and a different, positive sustainableMonthlySpend
C11_Witness ==
    /\ pc = "done"
    /\ monthly_expenses > 0
    /\ m >= retirement_m
    /\ output[1].metrics.sustainableMonthlySpend # None
    /\ output[1].metrics.sustainableMonthlySpend[1] > 0
    /\ output[1].metrics.sustainableMonthlySpend[1] # monthly_expenses

\* C13: a monthly schedule has exactly one record per simulated month, in
\* order: the record at list index i (from 0) has yearIndex = i div 12,
\* monthIndex = calendarMonth = (i mod 12) + 1, calendarYear =
\* startCalendarYear + i div 12 and age = currentAge + i div 12, the final
\* record appended on exhaustion included.
C13_MonthlyRecords ==
    (include_schedule /\ granularity = "monthly" /\ pc \notin {"start", "raised"}) =>
        LET sy == IF args.startCalendarYear = None THEN 2025
                  ELSE args.startCalendarYear[1]
        IN /\ \A j \in DOMAIN results :
                 LET i == j - 1
                 IN /\ results[j].yearIndex = i \div 12
                    /\ results[j].monthIndex = (i % 12) + 1
                    /\ results[j].calendarMonth = (i % 12) + 1
                    /\ results[j].calendarYear = sy + i \div 12
                    /\ results[j].age = args.currentAge + i \div 12
           /\ InLoop => Len(results) = m
           /\ (pc \in {"metrics", "done"}) =>
                 Len(results) = IF months_total > 0 THEN m + 1 ELSE 0

\* C13 witness: a returned monthly schedule of more than a year whose last
\* record is the final record of a run stopped on exhaustion
C13_Witness ==
    /\ pc = "done"
    /\ granularity = "monthly"
    /\ stop_when_depleted
    /\ estimated_exhaustion_age # None
    /\ Len(results) > 12
    /\ results[Len(results)].age = current_age + 1
    /\ args.startCalendarYear # None

\* C14: a yearly schedule gets a record only at the end of a month m with
\* (m + 1) mod 12 = 0, holding the end balance of that month (the total
\* balance then, up to the rounding of a rebalance); the j-th
\* record (from 0) has yearIndex = j, calendarYear = startCalendarYear + j,
\* age = currentAge + j, the phase at that boundary, and no contribution
\* or withdrawal field.
C14_YearlyRecords ==
    /\ []((include_schedule /\ granularity = "yearly"
                /\ pc \notin {"start", "raised"}) =>
            LET sy == IF args.startCalendarYear = None THEN 2025
                      ELSE args.startCalendarYear[1]
            IN \A j \in DOMAIN results :
                  LET i == j - 1
                  IN /\ DOMAIN results[j] =
                          {"yearIndex", "calendarYear", "age", "phase", "endBalance"}
                     /\ results[j].yearIndex = i
                     /\ results[j].calendarYear = sy + i
                     /\ results[j].age = args.currentAge + i
                     /\ results[j].phase =
                          IF 12 * (i + 1) - 1 >= retirement_m THEN "retirement"
                          ELSE "accumulation")
    /\ [][ (pc \notin {"start", "raised"} /\ include_schedule
              /\ granularity = "yearly") =>
              IF pc = "record" /\ (m + 1) % 12 = 0
              THEN /\ Len(results') = Len(results) + 1
                   /\ results'[Len(results')].endBalance = end_bal
                   /\ RebalanceDue(m) \/ end_bal = total_balance
                   /\ end_bal - total_balance \in 0 .. Cardinality(DOMAIN by_asset)
                   /\ \A j \in DOMAIN results : results'[j] = results[j]
              ELSE results' = results
         ]_vars

\* C14 witness: a returned yearly schedule of two records
C14_Witness ==
    /\ pc = "done"
    /\ include_schedule
    /\ granularity = "yearly"
    /\ Len(results) = 2
    /\ results[2].age = current_age + 1
    /\ results[2].endBalance > 0
    /\ args.startCalendarYear # None

\* two asset classes with positive initial balances and different returns
\* are held and rebalanceFrequencyMonths is 0 (Scenario D)
NeverRebalancedPair(k1, k2) ==
    /\ args.assumptions.rebalanceFrequencyMonths = Some(0)
    /\ k1 \in DOMAIN by_asset
    /\ k2 \in DOMAIN by_asset
    /\ ByAssetInit[k1] > 0
    /\ ByAssetInit[k2] > 0
    /\ asset_mret[k1] > asset_mret[k2]

\* C15: the rebalance step of month m resets the buckets to the target
\* weights exactly when rebalanceFrequencyMonths f is non-zero and
\* (m + 1) mod f = 0, and leaves them alone otherwise; with f = 0 and two
\* asset classes of different returns, once a month has grown the shares of
\* a positive total differ from the target weights, and every growth step
\* moves the share of the class with the higher return further up.
C15_RebalanceSchedule ==
    /\ [][ pc = "rebalance" =>
             LET f == IF args.assumptions.rebalanceFrequencyMonths = None THEN 12
                      ELSE args.assumptions.rebalanceFrequencyMonths[1]
                 total == total_balance
             IN IF f # 0 /\ (m + 1) % f = 0
                THEN IF total <= 0
                     THEN \A k \in DOMAIN by_asset : by_asset'[k] = 0
                     ELSE \A k \in DOMAIN by_asset :
                             IsFloorOf(by_asset'[k], total * target_weights[k].num,
                                       target_weights[k].den)
                ELSE by_asset' = by_asset
         ]_vars
    /\ [][ \A k1, k2 \in {"equity", "bond", "cash", "alt"} :
             (/\ pc = "growth"
              /\ NeverRebalancedPair(k1, k2)
              /\ by_asset[k1] > 0
              /\ by_asset[k2] > 0) =>
                 by_asset'[k1] * (by_asset[k1] + by_asset[k2])
                     > by_asset[k1] * (by_asset'[k1] + by_asset'[k2])
         ]_vars
    /\ [](\A k1, k2 \in {"equity", "bond", "cash", "alt"} :
             (/\ pc \in {"cashflow", "growth", "rebalance", "exhaustion",
                         "record", "metrics", "done"}
              /\ NeverRebalancedPair(k1, k2)
              /\ months_total > 0
              /\ (m > 0 \/ pc \notin {"cashflow", "growth"})
              /\ total_balance > 0) =>
                 /\ by_asset[k1] * target_weights[k1].den
                        > total_balance * target_weights[k1].num
                 /\ by_asset[k2] * target_weights[k2].den
                        < total_balance * target_weights[k2].num)

\* C15 witness: the end of a run of more than a year without rebalancing in
\* which the share of the class with the higher return is above its target
C15_Witness ==
    /\ pc = "done"
    /\ m >= 12
    /\ NeverRebalancedPair("bond", "equity")
    /\ by_asset["bond"] * target_weights["bond"].den
           > total_balance * target_weights["bond"].num

\* the arguments lack a key that the code reads with args[...]
MissingRequired ==
    IF RequiredKeys \subseteq DOMAIN args
    THEN "swrPct" \notin DOMAIN args.assumptions
    ELSE TRUE

\* C16 (as claimed): when the breakdown names an asset class whose
\* annual-return key is absent from assumptions, compute_projection fails
\* before any month is simulated: it never leaves the set-up normally.
C16_MissingReturnFails ==
    (/\ ~MissingRequired
     /\ \E i \in DOMAIN args.portfolioBreakdown :
           LET k == args.portfolioBreakdown[i].assetClass
           IN \/ k \notin DOMAIN ASSET_KEY_TO_RETURN
              \/ ASSET_KEY_TO_RETURN[k] \notin DOMAIN args.assumptions.returns) =>
        /\ pc \in {"start", "raised"}
        /\ output = None

\* C17 (as claimed): when a required field is missing or the ages or the
\* horizon make no sense (targetRetirementAge < currentAge,
\* lifeExpectancyAge < currentAge, horizonYears < 0), compute_projection
\* ends with an error before the simulation and returns nothing.
C17_InvalidInputFails ==
    (IF MissingRequired THEN TRUE
     ELSE \/ args.targetRetirementAge < args.currentAge
          \/ (args.lifeExpectancyAge # None
                 /\ args.lifeExpectancyAge[1] < args.currentAge)
          \/ (args.horizonYears # None /\ args.horizonYears[1] < 0)) =>
        /\ pc \in {"start", "raised"}
        /\ output = None

\* the rows that request p stores when all its creates succeed
RowsOf(p) ==
    {YearRow(p, frame[p].projection_years[i]) : i \in DOMAIN frame[p].projection_years}

\* request p has saved the run as COMPLETED and is about to respond
Succeeded(p) == exec_pc[p] = "respond" /\ frame[p].error = None

\* C18: after a successful execute, first or repeated, the stored years of
\* the run are exactly the rows of this execution, one per year_index
\* 0..horizon_years-1, none of an earlier execution; their content is the
\* projection of the current user data, so that a second execution on
\* unchanged data stores the same set.
C18_IdempotentReplace ==
    \A p \in Procs :
        Succeeded(p) =>
            LET h == db_run[1].horizon_years
                profile == [birth_year |-> user_data.birth_year]
                fresh == run_yearly_projection(db_run[1], profile,
                                               user_data.assumptions[1],
                                               user_data.portfolio, 0)
            IN /\ db_years = RowsOf(p)
               /\ \A y \in db_years : y.created_by = frame[p].exec_id
               /\ {y.data.year_index : y \in db_years} = 0 .. h - 1
               /\ Cardinality(db_years) = h
               /\ {y.data : y \in db_years} = {fresh[i] : i \in DOMAIN fresh}

\* a second execution has succeeded and stored its years
C18_Witness ==
    \E p \in Procs :
        /\ Succeeded(p)
        /\ frame[p].exec_id = 2
        /\ Cardinality(db_years) = 2

\* C19 (as claimed): when a create of a period record fails after the
\* computation succeeded, execute leaves the run FAILED, with the error
\* text attached to the stored run and with no row of this execution stored.
C19_PersistFailure ==
    \A p \in Procs :
        (/\ exec_pc[p] = "respond"
         /\ frame[p].error \in {Some("DatabaseError"), Some("IntegrityError")}) =>
            /\ db_run[1].status = "FAILED"
            /\ db_run[1].notes = frame[p].error[1]
            /\ \A y \in db_years : y.created_by # frame[p].exec_id

\* C20 (as claimed): the stored years of the run change only after the
\* computation of a request has finished, and in one step that stores the
\* complete new set.
C20_AtomicPersist ==
    [][ db_years' # db_years =>
          \E p \in Procs :
              /\ exec_pc[p] = "create"
              /\ db_years' = RowsOf(p) ]_dbvars

\* the month at which retirement starts, from the arguments
RetirementMonthIndex ==
    IF args.targetRetirementAge > args.currentAge
    THEN (args.targetRetirementAge - args.currentAge) * 12
    ELSE 0

\* C21: in a month with m < retirementMonthIndex the contribution is
\* monthlyContributions and the withdrawal 0; in a month with
\* m >= retirementMonthIndex the contribution is 0 and the withdrawal is
\* monthlyExpenses if it is > 0, else the frozen sustainable withdrawal;
\* every monthly record reports these two amounts for its month.
C21_CashFlowRule ==
    /\ [][ pc = "cashflow" =>
             IF m < RetirementMonthIndex
             THEN /\ contrib' = args.monthlyContributions
                  /\ withdrawal' = 0
             ELSE /\ contrib' = 0
                  /\ withdrawal' = IF args.monthlyExpenses > 0
                                   THEN args.monthlyExpenses
                                   ELSE sustainable'[1] ]_vars
    /\ [](pc \in {"growth", "rebalance", "exhaustion", "record", "metrics", "done"}
            /\ args.includeSchedule /\ args.scheduleGranularity = "monthly" =>
              \A i \in DOMAIN results :
                 LET r == results[i]
                     mm == r.yearIndex * 12 + r.monthIndex - 1
                 IN IF mm < RetirementMonthIndex
                    THEN /\ r.contributions = args.monthlyContributions
                         /\ r.withdrawals = 0
                    ELSE /\ r.contributions = 0
                         /\ r.withdrawals = IF args.monthlyExpenses > 0
                                            THEN args.monthlyExpenses
                                            ELSE sustainable[1])

\* C21 witness: a monthly schedule with a contribution month and a later
\* month that withdraws the frozen sustainable amount
C21_Witness ==
    /\ pc = "done"
    /\ args.scheduleGranularity = "monthly"
    /\ args.monthlyExpenses = 0
    /\ \E i, j \in DOMAIN results :
          /\ i < j
          /\ results[i].contributions > 0
          /\ results[j].withdrawals > 0
          /\ results[j].withdrawals = sustainable[1]

\* the arguments are well formed and hold no negative balance, no negative
\* contribution and no annual return of -100 % or less
NonNegativeInputs ==
    IF KeyErrorRaised THEN FALSE
    ELSE /\ \A i \in DOMAIN args.portfolioBreakdown :
               args.portfolioBreakdown[i].balance >= 0
         /\ args.monthlyContributions >= 0
         /\ \A k \in DOMAIN args.assumptions.returns :
               args.assumptions.returns[k] > -100

\* C22: for non-negative initial balances and contributions and annual
\* returns above -100 %, every bucket is >= 0 after each cash-flow step,
\* after growth and after rebalance, and the end balance of every month and
\* of every record is >= 0, whatever the withdrawal.
C22_NonNegativeBalances ==
    (NonNegativeInputs /\ pc # "start") =>
        /\ \A k \in DOMAIN by_asset : by_asset[k] >= 0
        /\ end_bal >= 0
        /\ \A i \in DOMAIN results : results[i].endBalance >= 0

\* C22 witness: the first month's withdrawal exceeds the whole positive
\* portfolio and the cash-flow step has left every bucket at 0
C22_Witness ==
    /\ NonNegativeInputs
    /\ pc = "growth"
    /\ m = 0
    /\ SumOver(ByAssetInit, DOMAIN ByAssetInit) > 0
    /\ withdrawal > SumOver(ByAssetInit, DOMAIN ByAssetInit)
    /\ \A k \in DOMAIN by_asset : by_asset[k] = 0

\* the buckets at the start of month m, before its cash flow, where the
\* state shows them: the initial balances in month 0, and the previous
\* record's end balance for a portfolio of one bucket with a monthly schedule
PreFlowKnown ==
    \/ m = 0
    \/ /\ Cardinality(DOMAIN by_asset) = 1
       /\ include_schedule /\ granularity = "monthly"
       /\ Len(results) = m

PreFlow ==
    IF m = 0 THEN ByAssetInit
    ELSE [k \in DOMAIN by_asset |-> results[m].endBalance]

\* C23 (as claimed): the month's net flow does not earn the month's return:
\* the end balance of a month is the pre-flow balance grown by the monthly
\* rate plus the net flow (up to the rounding of one unit per division, for
\* a positive pre-flow total and no bucket floored at 0).
C23_FlowEarnsNoReturn ==
    (/\ pc = "rebalance"
     /\ PreFlowKnown
     /\ SumOver(PreFlow, DOMAIN PreFlow) > 0
     /\ \A k \in DOMAIN by_asset : by_asset[k] > 0) =>
        LET grown == Grow(PreFlow, asset_mret)
            claimed == SumOver(grown, DOMAIN grown) + contrib - withdrawal
            tol == 3 * Cardinality(DOMAIN by_asset)
        IN end_bal - claimed \in (0 - tol) .. tol

\* C24: the cash-flow step distributes the net flow by each bucket's share
\* of the pre-flow total: with a positive pre-flow total and no bucket
\* floored (the total covers the net outflow) every bucket changes by its
\* balance times (contribution - withdrawal) / total, so that its share is
\* unchanged and the total changes by contribution - withdrawal (up to
\* rounding: one unit, and the flow times the precision 1/ShareDen of a
\* share); with a pre-flow total <= 0 no bucket changes.
C24_FlowByCurrentShare ==
    [][ pc = "cashflow" =>
          LET total == SumOver(by_asset, DOMAIN by_asset)
              after == total + contrib' - withdrawal'
              total_after == SumOver(by_asset', DOMAIN by_asset')
              tol == 2 + (contrib' + withdrawal') \div ShareDen
              n == Cardinality(DOMAIN by_asset)
          IN IF total > 0
             THEN after >= 0 =>
                    /\ \A k \in DOMAIN by_asset :
                          by_asset'[k] - by_asset[k]
                              - ((contrib' - withdrawal') * by_asset[k]) \div total
                                  \in (0 - tol) .. tol
                    /\ total_after - after \in (0 - n * tol) .. (n * tol)
             ELSE by_asset' = by_asset ]_vars

\* C24 witness: a contribution has been distributed over two buckets whose
\* shares had drifted away from the target weights
C24_Witness ==
    /\ pc = "growth"
    /\ m > 0
    /\ contrib > 0
    /\ DOMAIN by_asset = {"equity", "bond"}
    /\ by_asset["bond"] > 0
    /\ LET total == SumOver(by_asset, DOMAIN by_asset)
           tw == target_weights["equity"]
       IN by_asset["equity"] * tw.den > (total + 2) * tw.num

C26_PartialFinalYear ==
    (/\ pc = "done"
     /\ args.includeSchedule
     /\ args.scheduleGranularity = "yearly"
     /\ args.stopWhenDepleted
     /\ estimated_exhaustion_age # None) =>
        IF (m + 1) % 12 = 0
        THEN \E i \in DOMAIN results : results[i].yearIndex = (m + 1) \div 12 - 1
        ELSE \A i \in DOMAIN results : results[i].yearIndex # m \div 12

\* the sum of the balances of the breakdown as the code adds them up
InitialTotal == SumOver(ByAssetInit, DOMAIN ByAssetInit)

\* C27: once the total balance is 0 inside the loop, every bucket and every
\* end balance stay 0 in that month and in all later months, whatever the
\* contributions, which the monthly records still report; a portfolio that
\* starts at total 0 and simulates a month has estimatedExhaustionAge =
\* currentAge, set in month 0, and with stopWhenDepleted its monthly
\* schedule has exactly one record.
C27_ZeroAbsorbing ==
    /\ [][ (InLoop /\ SumOver(by_asset, DOMAIN by_asset) = 0) =>
              /\ \A k \in DOMAIN by_asset : by_asset'[k] = 0
              /\ pc = "growth" => end_bal' = 0
              /\ (pc = "record" /\ args.includeSchedule
                    /\ args.scheduleGranularity = "monthly") =>
                    /\ Len(results') = Len(results) + 1
                    /\ results'[Len(results')].endBalance = 0
                    /\ results'[Len(results')].contributions = contrib ]_vars
    /\ [][ (pc = "exhaustion" /\ InitialTotal = 0) =>
              IF m = 0
              THEN estimated_exhaustion_age' = Some(args.currentAge)
              ELSE estimated_exhaustion_age' = estimated_exhaustion_age ]_vars
    /\ [](pc = "done" /\ InitialTotal = 0 /\ months_total > 0 =>
              /\ estimated_exhaustion_age = Some(args.currentAge)
              /\ (args.stopWhenDepleted /\ args.includeSchedule
                    /\ args.scheduleGranularity = "monthly") => Len(results) = 1)

\* C27 witness: a run on an empty portfolio that was not stopped has
\* reported a year of contributions with every end balance at 0
C27_Witness ==
    /\ pc = "done"
    /\ DOMAIN by_asset # {}
    /\ InitialTotal = 0
    /\ ~args.stopWhenDepleted
    /\ args.scheduleGranularity = "monthly"
    /\ Len(results) >= 12
    /\ \A i \in DOMAIN results : results[i].endBalance = 0
    /\ \E i \in DOMAIN results : results[i].contributions > 0

\* C28: when horizonYears is not supplied, monthsTotal <= retirementMonthIndex,
\* so that no retirement month is executed: every simulated month is before
\* the retirement month and withdraws nothing, every record has phase
\* accumulation, and sustainableMonthlySpend stays null.
C28_DefaultHorizon ==
    (pc \notin {"start", "raised"} /\ args.horizonYears = None) =>
        /\ months_total <= RetirementMonthIndex
        /\ InLoop => m < RetirementMonthIndex
        /\ withdrawal = 0
        /\ sustainable = None
        /\ \A i \in DOMAIN results : results[i].phase = "accumulation"
        /\ pc = "done" => output[1].metrics.sustainableMonthlySpend = None

\* C28 witness: a run without horizonYears has returned a schedule that
\* ends with the last month before retirement
C28_Witness ==
    /\ pc = "done"
    /\ args.horizonYears = None
    /\ args.scheduleGranularity = "monthly"
    /\ RetirementMonthIndex > 0
    /\ Len(results) = RetirementMonthIndex

\* C29: two inputs that differ only in includeSchedule and/or
\* scheduleGranularity have the same bucket balances after every simulated
\* month, stop at the same month and return the same estimatedExhaustionAge
\* and sustainableMonthlySpend: for every input these are the values of
\* LoopAfter, which reads neither of the two arguments.
C29_ScheduleIndependent ==
    /\ pc = "exhaustion" =>
           \A r \in {LoopAfter(m + 1)} :
               /\ r.months = m + 1
               /\ by_asset = r.by_asset
               /\ sustainable = r.sustainable
    /\ pc = "record" =>
           \A r \in {LoopAfter(m + 1)} :
               /\ ~r.stopped
               /\ estimated_exhaustion_age = r.estimated_exhaustion_age
    /\ pc = "metrics" =>
           \A r \in {LoopAfter(months_total)} :
               /\ r.months = IF months_total > 0 THEN m + 1 ELSE 0
               /\ by_asset = r.by_asset
               /\ estimated_exhaustion_age = r.estimated_exhaustion_age
               /\ sustainable = r.sustainable
    /\ pc = "done" =>
           /\ output[1].metrics.estimatedExhaustionAge = estimated_exhaustion_age
           /\ output[1].metrics.sustainableMonthlySpend = sustainable

\* C29 witness: a run without a monthly schedule has stopped at the month of
\* exhaustion, before the last month of the horizon
C29_Witness ==
    /\ pc = "done"
    /\ ~(args.includeSchedule /\ args.scheduleGranularity = "monthly")
    /\ args.stopWhenDepleted
    /\ estimated_exhaustion_age # None
    /\ m > 0
    /\ m + 1 < months_total

\* both requests have answered, and neither met a failure that one request
\* alone can meet (no Assumptions row, no birth date, a failing database)
BothAnswered ==
    /\ AllIdle
    /\ \A p \in Procs :
          /\ frame[p].response # None
          /\ frame[p].response[1].message \in {"completed", "IntegrityError"}

\* C30: once two concurrent execute calls on the same run have finished, the
\* status of the run is COMPLETED and its stored ProjectionYear records are
\* exactly one per year_index 0 .. horizon_years - 1, in every interleaving
\* of the deletes, the inserts and the status saves.
C30_ConcurrentExecute ==
    BothAnswered =>
        /\ db_run[1].status = "COMPLETED"
        /\ {y.data.year_index : y \in db_years} = 0 .. (db_run[1].horizon_years - 1)
        /\ Cardinality(db_years) = db_run[1].horizon_years
====
